---- MODULE Spec2Model ----
(***************************************************************************)
(* Model of convert_vraw_to_mp4 (src/src/processing.rs): one run of the    *)
(* conversion of a .vraw capture file into an .mp4 container.              *)
(*                                                                         *)
(* The raw file is the value `vraw`: one record per index entry giving     *)
(* what parse_raw_frame yields for that entry (a frame, or a read error).  *)
(* The file is opened read-only and is not modified during the run, so an  *)
(* entry parses to the same result in both passes.  The collaborators      *)
(* (file system, read_index, Mp4Writer) may fail at every call; each       *)
(* failure is a nondeterministic branch.                                   *)
(*                                                                         *)
(* `trace` is a history variable: the ordered list of frame-parser and     *)
(* muxer calls made so far.                                                *)
(***************************************************************************)
EXTENDS Integers, Sequences, FiniteSets, TLC

VARIABLES
    input,          \* the input path: directories and file name
    output,         \* Option<String> as a sequence: << >> is None, <<p>> is Some(p)
    vraw,           \* contents of the raw file, one parse outcome per entry
    pc,             \* position of the run inside convert_vraw_to_mp4
    entries,        \* the descriptors returned by read_index
    it,             \* position of the running `for entry in &entries`
    last_timestamp, \* line 68
    dst_file,       \* TRUE once File::create(output) has succeeded
    mp4_writer,     \* the muxer: tracks added, samples written, finalized
    result,         \* the value returned by the run, None while running
    trace,          \* history of parse_raw_frame and Mp4Writer calls
    prev            \* the output argument of the call and, in a second run
                    \* on the same input, what the first run did

vars == <<input, output, vraw, pc, entries, it, last_timestamp,
          dst_file, mp4_writer, result, trace, prev>>

----------------------------------------------------------------------------
(* Bounds of the model *)

MaxFrames == 3
MaxTs == 1

(* Program constants *)

TRACK_ID == 1

----------------------------------------------------------------------------
(* Values *)

None == "None"

NoPath == << >>

Some(p) == <<p>>

VideoCaptureFormat == {"H264", "H265", "Stats", "Other"}

FrameReadError == [ok |-> FALSE, format |-> "None", timestamp |-> 0, raw_data |-> 0]

Frame(fmt, ts, data) == [ok |-> TRUE, format |-> fmt, timestamp |-> ts, raw_data |-> data]

(* timestamps half a millisecond apart, where the rounding of line 117 turns *)
TimeStamps == {k * 500000 : k \in 0..MaxTs}

(* what parse_raw_frame can yield for the entry at position k *)
ParseOutcomes(k) ==
    {FrameReadError} \cup {Frame(fmt, ts, k) : fmt \in VideoCaptureFormat, ts \in TimeStamps}

(* timestamps of the frames of a capture do not decrease *)
Monotonic(file) ==
    \A a, b \in DOMAIN file :
        (a < b /\ file[a].ok /\ file[b].ok) => file[a].timestamp <= file[b].timestamp

(* the raw files of at most n entries *)
RECURSIVE RawFiles(_)
RawFiles(n) ==
    IF n = 0 THEN {<< >>}
    ELSE LET shorter == RawFiles(n - 1)
         IN  shorter \cup
             {h \in {Append(file, x) : file \in {g \in shorter : Len(g) = n - 1},
                                        x \in ParseOutcomes(n)} : Monotonic(h)}

(* the example input of the specification *)
ExampleFile ==
    <<Frame("H265", 0, 1), Frame("Stats", 5, 2), Frame("H265", 1000, 3), Frame("H265", 2000, 4)>>

(* an input path: the directories leading to the file, and the file name
   split where trim_end_matches looks *)
InputPaths ==
    {[dir |-> << >>, file_name |-> <<"rec", ".vraw">>],
     [dir |-> <<"a", "b">>, file_name |-> <<"rec", ".vraw", ".vraw">>]}

OutputArgs == {NoPath, Some([dir |-> << >>, file_name |-> <<"out", ".mp4">>])}

(* the values Local::now().format(..) can take *)
Clock == {"T0", "T1"}

----------------------------------------------------------------------------
(* Error values, the strings of the source *)

ErrOpen == "vraw_convert: failed to open file"
ErrIndex == "vraw_convert: failed to read index"
ErrEmpty == "vraw_convert: index contains no frames"
ErrCreate == "vraw_convert: file creation failed"
ErrStart == "vraw_convert: failed to start writing mp4"
ErrFrame == "vraw_convert: unable to read frame"
ErrAddTrack == "vraw_convert: failed to add mp4 track"
ErrFormat == "VideoCaptureFormat not supported"
ErrSample == "vraw_convert: failed to write sample"
ErrEnd == "vraw_convert: failed to end mp4 writing"
Ok == "Ok"

Panic == "panic"

----------------------------------------------------------------------------
(* Pure parts of the run *)

(* parser::parse_raw_frame(&mut f, entry): the frame stored for the entry *)
parse_raw_frame(f, entry) == f[entry]

(* parser::read_index(&mut f): one descriptor per entry of the file *)
read_index(f) == [k \in 1..Len(f) |-> k]

(* str::trim_end_matches(".vraw"): drops every trailing occurrence *)
RECURSIVE trim_end_matches(_, _)
trim_end_matches(name, pat) ==
    IF Len(name) > 0 /\ name[Len(name)] = pat
    THEN trim_end_matches(SubSeq(name, 1, Len(name) - 1), pat)
    ELSE name

(* lines 19-37: the output path derived from the input path and the time;
   ancestors().nth(2) is the directory two levels up, None when the path
   has fewer than two components above the empty path *)
has_ancestor_2(path) == Len(path.dir) >= 1

derived_output(path, now) ==
    [dir |-> SubSeq(path.dir, 1, Len(path.dir) - 1),
     file_name |-> trim_end_matches(path.file_name, ".vraw") \o <<"_", now, ".mp4">>]

(* lines 114 and 117: `delta as f64 * 1e-6`, f64::round (halves away from
   zero), then `as u32`, which saturates: a negative value becomes 0.  The
   upper saturation, at 2^32 - 1 milliseconds, lies beyond the timestamps
   of the model *)
round_as_u32(delta) ==
    LET r == IF delta >= 0 THEN (delta + 500000) \div 1000000
             ELSE -((500000 - delta) \div 1000000)
    IN  IF r < 0 THEN 0 ELSE r

(* lines 114-121 *)
video_sample(frame, last) ==
    [start_time |-> frame.timestamp,
     duration |-> round_as_u32(frame.timestamp - last),
     rendering_offset |-> 0,
     is_sync |-> FALSE,
     bytes |-> frame.raw_data]

(* lines 75-77 *)
HevcConfig == [media |-> "hevc", width |-> 0, height |-> 0]

(* lines 86-91 *)
AvcConfig ==
    [media |-> "avc", width |-> 0, height |-> 0,
     seq_param_set |-> <<0, 0, 0, 1, 103, 66, 0, 10, 248, 65, 162>>,
     pic_param_set |-> <<0, 0, 0, 1, 104, 206, 56, 128>>]

(* line 124: the sample as the muxer receives it, with the track it is for *)
write_sample(track_id, sample) == [track_id |-> track_id] @@ sample

(* the muxer before write_start *)
NewWriter == [started |-> FALSE, tracks |-> << >>, samples |-> << >>, finalized |-> FALSE]

Event(op, ok, arg) == [op |-> op, ok |-> ok, arg |-> arg]

----------------------------------------------------------------------------
(* Initial state: the arguments and the file the run is given *)

Init ==
    /\ input \in InputPaths
    /\ output \in OutputArgs
    /\ vraw \in RawFiles(MaxFrames) \cup {ExampleFile}
    /\ pc = "open"
    /\ entries = << >>
    /\ it = 0
    /\ last_timestamp = 0
    /\ dst_file = FALSE
    /\ mp4_writer = NewWriter
    /\ result = None
    /\ trace = << >>
    /\ prev = [run |-> 1, arg |-> output, path |-> NoPath, trace |-> << >>,
               mp4_writer |-> NewWriter, result |-> None]

Return(r) ==
    /\ pc' = "done"
    /\ result' = r

Log(op, ok, arg) == trace' = Append(trace, Event(op, ok, arg))

----------------------------------------------------------------------------
(* Lines 17-65: opening the files and starting the muxer *)

(* line 17, File::open fails *)
OpenFail ==
    /\ pc = "open"
    /\ Log("open", FALSE, 0)
    /\ Return(ErrOpen)
    /\ UNCHANGED <<prev, input, output, vraw, entries, it, last_timestamp, dst_file, mp4_writer>>

(* OpenOk deriving the output path from the clock even when one is given *)
OpenOkAlwaysDerived ==
    /\ pc = "open"
    /\ output # NoPath \/ has_ancestor_2(input)
    /\ IF ~has_ancestor_2(input) THEN UNCHANGED output
       ELSE \E now \in Clock : output' = Some(derived_output(input, now))
    /\ Log("open", TRUE, 0)
    /\ pc' = "read_index"
    /\ UNCHANGED <<prev, input, vraw, entries, it, last_timestamp, dst_file, mp4_writer, result>>

(* lines 17-39, File::open succeeds; the output path is the one given, or
   the one derived from the input path and the current time *)
OpenOk ==
    /\ pc = "open"
    /\ output # NoPath \/ has_ancestor_2(input)
    /\ IF output # NoPath THEN UNCHANGED output
       ELSE \E now \in Clock : output' = Some(derived_output(input, now))
    /\ Log("open", TRUE, 0)
    /\ pc' = "read_index"
    /\ UNCHANGED <<prev, input, vraw, entries, it, last_timestamp, dst_file, mp4_writer, result>>

(* lines 30-33, ancestors().nth(2).unwrap() on a path with no such ancestor *)
OutputPanic ==
    /\ pc = "open"
    /\ output = NoPath /\ ~has_ancestor_2(input)
    /\ Log("open", TRUE, 0)
    /\ Return(Panic)
    /\ UNCHANGED <<prev, input, output, vraw, entries, it, last_timestamp, dst_file, mp4_writer>>

(* lines 41-42, read_index fails *)
ReadIndexFail ==
    /\ pc = "read_index"
    /\ Log("read_index", FALSE, 0)
    /\ Return(ErrIndex)
    /\ UNCHANGED <<prev, input, output, vraw, entries, it, last_timestamp, dst_file, mp4_writer>>

(* ReadIndexOk without the test of line 44 *)
ReadIndexNoEmptyCheck ==
    /\ pc = "read_index"
    /\ Log("read_index", TRUE, 0)
    /\ entries' = read_index(vraw)
    /\ pc' = "create"
    /\ UNCHANGED <<prev, input, output, vraw, it, last_timestamp, dst_file, mp4_writer, result>>

(* lines 41-46, read_index succeeds; an empty index is an error *)
ReadIndexOk ==
    /\ pc = "read_index"
    /\ Log("read_index", TRUE, 0)
    /\ entries' = read_index(vraw)
    /\ IF Len(entries') = 0 THEN Return(ErrEmpty)
       ELSE pc' = "create" /\ UNCHANGED result
    /\ UNCHANGED <<prev, input, output, vraw, it, last_timestamp, dst_file, mp4_writer>>

(* line 61, File::create fails *)
CreateFail ==
    /\ pc = "create"
    /\ Log("create", FALSE, 0)
    /\ Return(ErrCreate)
    /\ UNCHANGED <<prev, input, output, vraw, entries, it, last_timestamp, dst_file, mp4_writer>>

(* lines 61-62 *)
CreateOk ==
    /\ pc = "create"
    /\ Log("create", TRUE, 0)
    /\ dst_file' = TRUE
    /\ pc' = "write_start"
    /\ UNCHANGED <<prev, input, output, vraw, entries, it, last_timestamp, mp4_writer, result>>

(* lines 64-65, Mp4Writer::write_start fails *)
WriteStartFail ==
    /\ pc = "write_start"
    /\ Log("write_start", FALSE, 0)
    /\ Return(ErrStart)
    /\ UNCHANGED <<prev, input, output, vraw, entries, it, last_timestamp, dst_file, mp4_writer>>

(* lines 64-69, the muxer is started and the selection loop begins *)
WriteStartOk ==
    /\ pc = "write_start"
    /\ Log("write_start", TRUE, 0)
    /\ mp4_writer' = [mp4_writer EXCEPT !.started = TRUE]
    /\ last_timestamp' = 0
    /\ pc' = "select"
    /\ it' = 1
    /\ UNCHANGED <<prev, input, output, vraw, entries, dst_file, result>>

----------------------------------------------------------------------------
(* Lines 67-103: the selection loop, `for entry in &entries` *)

(* the frame parsed in the current iteration *)
frame == parse_raw_frame(vraw, entries[it])

InLoop(p) == pc = p /\ it \in 1..Len(entries)

(* line 69, the loop runs out of entries without a break *)
SelectExhausted ==
    /\ pc = "select" /\ it > Len(entries)
    /\ pc' = "emit"
    /\ it' = 1
    /\ UNCHANGED <<prev, input, output, vraw, entries, last_timestamp, dst_file, mp4_writer, result, trace>>

(* SelectParseErr ending the scan as the emission loop ends on an error *)
SelectParseErrBreak ==
    /\ InLoop("select") /\ ~frame.ok
    /\ Log("parse_select", FALSE, entries[it])
    /\ pc' = "emit"
    /\ it' = 1
    /\ UNCHANGED <<prev, input, output, vraw, entries, last_timestamp, dst_file, mp4_writer, result>>

(* lines 70-71, parse_raw_frame fails: the error is returned *)
SelectParseErr ==
    /\ InLoop("select") /\ ~frame.ok
    /\ Log("parse_select", FALSE, entries[it])
    /\ Return(ErrFrame)
    /\ UNCHANGED <<prev, input, output, vraw, entries, it, last_timestamp, dst_file, mp4_writer>>

(* AddTrackAndBreak with the emission loop going on from the descriptor
   after the selecting frame, as with one iterator shared by both loops *)
AddTrackSharedIter(config) ==
    \E ok \in BOOLEAN :
        /\ trace' = trace \o <<Event("parse_select", TRUE, entries[it]), Event("add_track", ok, 0)>>
        /\ IF ok
           THEN /\ mp4_writer' = [mp4_writer EXCEPT !.tracks = Append(@, config)]
                /\ last_timestamp' = frame.timestamp
                /\ pc' = "emit"
                /\ it' = it + 1
                /\ UNCHANGED result
           ELSE /\ Return(ErrAddTrack)
                /\ UNCHANGED <<mp4_writer, last_timestamp, it>>
        /\ UNCHANGED <<prev, input, output, vraw, entries, dst_file>>

(* AddTrackAndBreak without the break: the scan goes on after add_track *)
AddTrackNoBreak(config) ==
    \E ok \in BOOLEAN :
        /\ trace' = trace \o <<Event("parse_select", TRUE, entries[it]), Event("add_track", ok, 0)>>
        /\ IF ok
           THEN /\ mp4_writer' = [mp4_writer EXCEPT !.tracks = Append(@, config)]
                /\ last_timestamp' = frame.timestamp
                /\ it' = it + 1
                /\ UNCHANGED <<pc, result>>
           ELSE /\ Return(ErrAddTrack)
                /\ UNCHANGED <<mp4_writer, last_timestamp, it>>
        /\ UNCHANGED <<prev, input, output, vraw, entries, dst_file>>

(* lines 74-82 and 88-96: add_track with the given configuration, then
   the baseline timestamp and the break *)
AddTrackAndBreak(config) ==
    \E ok \in BOOLEAN :
        /\ trace' = trace \o <<Event("parse_select", TRUE, entries[it]), Event("add_track", ok, 0)>>
        /\ IF ok
           THEN /\ mp4_writer' = [mp4_writer EXCEPT !.tracks = Append(@, config)]
                /\ last_timestamp' = frame.timestamp
                /\ pc' = "emit"
                /\ it' = 1
                /\ UNCHANGED result
           ELSE /\ Return(ErrAddTrack)
                /\ UNCHANGED <<mp4_writer, last_timestamp, it>>
        /\ UNCHANGED <<prev, input, output, vraw, entries, dst_file>>

(* lines 73-83 *)
SelectH265 ==
    /\ InLoop("select") /\ frame.ok /\ frame.format = "H265"
    /\ AddTrackAndBreak(HevcConfig)

(* SelectH264 installing the HEVC configuration *)
SelectH264AsHevc ==
    /\ InLoop("select") /\ frame.ok /\ frame.format = "H264"
    /\ AddTrackAndBreak(HevcConfig)

(* lines 84-97 *)
SelectH264 ==
    /\ InLoop("select") /\ frame.ok /\ frame.format = "H264"
    /\ AddTrackAndBreak(AvcConfig)

(* SelectStats stepping over the descriptor after the Stats frame *)
SelectStatsSkipsNext ==
    /\ InLoop("select") /\ frame.ok /\ frame.format = "Stats"
    /\ Log("parse_select", TRUE, entries[it])
    /\ it' = it + 2
    /\ UNCHANGED <<prev, input, output, vraw, pc, entries, last_timestamp, dst_file, mp4_writer, result>>

(* lines 98-100 *)
SelectStats ==
    /\ InLoop("select") /\ frame.ok /\ frame.format = "Stats"
    /\ Log("parse_select", TRUE, entries[it])
    /\ it' = it + 1
    /\ UNCHANGED <<prev, input, output, vraw, pc, entries, last_timestamp, dst_file, mp4_writer, result>>

(* SelectUnsupported skipping the frame as if it were Stats *)
SelectUnsupportedContinue ==
    /\ InLoop("select") /\ frame.ok /\ frame.format \notin {"H265", "H264", "Stats"}
    /\ Log("parse_select", TRUE, entries[it])
    /\ it' = it + 1
    /\ UNCHANGED <<prev, input, output, vraw, pc, entries, last_timestamp, dst_file, mp4_writer, result>>

(* line 101 *)
SelectUnsupported ==
    /\ InLoop("select") /\ frame.ok /\ frame.format \notin {"H265", "H264", "Stats"}
    /\ Log("parse_select", TRUE, entries[it])
    /\ Return(ErrFormat)
    /\ UNCHANGED <<prev, input, output, vraw, entries, it, last_timestamp, dst_file, mp4_writer>>

----------------------------------------------------------------------------
(* Lines 105-134: the emission loop, a second `for entry in &entries` *)

(* line 105, the loop runs out of entries *)
EmitExhausted ==
    /\ pc = "emit" /\ it > Len(entries)
    /\ pc' = "write_end"
    /\ UNCHANGED <<prev, input, output, vraw, entries, it, last_timestamp, dst_file, mp4_writer, result, trace>>

(* EmitParseErr propagating the error as the selection loop does *)
EmitParseErrHard ==
    /\ InLoop("emit") /\ ~frame.ok
    /\ Log("parse_emit", FALSE, entries[it])
    /\ Return(ErrFrame)
    /\ UNCHANGED <<prev, input, output, vraw, entries, it, last_timestamp, dst_file, mp4_writer>>

(* lines 129-132, parse_raw_frame fails: break *)
EmitParseErr ==
    /\ InLoop("emit") /\ ~frame.ok
    /\ Log("parse_emit", FALSE, entries[it])
    /\ pc' = "write_end"
    /\ UNCHANGED <<prev, input, output, vraw, entries, it, last_timestamp, dst_file, mp4_writer, result>>

(* EmitStats advancing the baseline timestamp as for an emitted frame *)
EmitStatsUpdatesTs ==
    /\ InLoop("emit") /\ frame.ok /\ frame.format = "Stats"
    /\ Log("parse_emit", TRUE, entries[it])
    /\ it' = it + 1
    /\ last_timestamp' = frame.timestamp
    /\ UNCHANGED <<prev, input, output, vraw, pc, entries, dst_file, mp4_writer, result>>

(* lines 110-112 *)
EmitStats ==
    /\ InLoop("emit") /\ frame.ok /\ frame.format = "Stats"
    /\ Log("parse_emit", TRUE, entries[it])
    /\ it' = it + 1
    /\ UNCHANGED <<prev, input, output, vraw, pc, entries, last_timestamp, dst_file, mp4_writer, result>>

(* EmitSample refusing, as the selection loop does, a frame that is neither
   H264 nor H265 *)
EmitSampleVideoOnly ==
    /\ InLoop("emit") /\ frame.ok /\ frame.format # "Stats"
    /\ IF frame.format \notin {"H264", "H265"}
       THEN /\ Log("parse_emit", TRUE, entries[it])
            /\ Return(ErrFormat)
            /\ UNCHANGED <<mp4_writer, last_timestamp, it>>
       ELSE \E ok \in BOOLEAN :
            /\ ok => Len(mp4_writer.tracks) >= TRACK_ID
            /\ trace' = trace \o <<Event("parse_emit", TRUE, entries[it]),
                                   Event("write_sample", ok, entries[it])>>
            /\ IF ok
               THEN /\ mp4_writer' = [mp4_writer EXCEPT
                                        !.samples = Append(@, write_sample(TRACK_ID,
                                                           video_sample(frame, last_timestamp)))]
                    /\ last_timestamp' = frame.timestamp
                    /\ it' = it + 1
                    /\ UNCHANGED <<pc, result>>
               ELSE /\ Return(ErrSample)
                    /\ UNCHANGED <<mp4_writer, last_timestamp, it>>
    /\ UNCHANGED <<prev, input, output, vraw, entries, dst_file>>

(* EmitSample dropping the error of write_sample and going on *)
EmitSampleIgnoreErr ==
    /\ InLoop("emit") /\ frame.ok /\ frame.format # "Stats"
    /\ \E ok \in BOOLEAN :
        /\ ok => Len(mp4_writer.tracks) >= TRACK_ID
        /\ trace' = trace \o <<Event("parse_emit", TRUE, entries[it]),
                               Event("write_sample", ok, entries[it])>>
        /\ mp4_writer' = IF ok THEN [mp4_writer EXCEPT
                                      !.samples = Append(@, write_sample(TRACK_ID,
                                                       video_sample(frame, last_timestamp)))]
                         ELSE mp4_writer
        /\ last_timestamp' = frame.timestamp
        /\ it' = it + 1
        /\ UNCHANGED <<pc, result>>
    /\ UNCHANGED <<prev, input, output, vraw, entries, dst_file>>

(* lines 114-127; Mp4Writer::write_sample fails, at the latest, when the
   track it names does not exist *)
EmitSample ==
    /\ InLoop("emit") /\ frame.ok /\ frame.format # "Stats"
    /\ \E ok \in BOOLEAN :
        /\ ok => Len(mp4_writer.tracks) >= TRACK_ID
        /\ trace' = trace \o <<Event("parse_emit", TRUE, entries[it]),
                               Event("write_sample", ok, entries[it])>>
        /\ IF ok
           THEN /\ mp4_writer' = [mp4_writer EXCEPT
                                    !.samples = Append(@, write_sample(TRACK_ID,
                                                       video_sample(frame, last_timestamp)))]
                /\ last_timestamp' = frame.timestamp
                /\ it' = it + 1
                /\ UNCHANGED <<pc, result>>
           ELSE /\ Return(ErrSample)
                /\ UNCHANGED <<mp4_writer, last_timestamp, it>>
    /\ UNCHANGED <<prev, input, output, vraw, entries, dst_file>>

(* WriteEnd dropping the error of write_end *)
WriteEndIgnoreErr ==
    /\ pc = "write_end"
    /\ \E ok \in BOOLEAN :
        /\ Log("write_end", ok, 0)
        /\ mp4_writer' = [mp4_writer EXCEPT !.finalized = ok]
        /\ Return(Ok)
    /\ UNCHANGED <<prev, input, output, vraw, entries, it, last_timestamp, dst_file>>

(* lines 136-140 *)
WriteEnd ==
    /\ pc = "write_end"
    /\ \E ok \in BOOLEAN :
        /\ Log("write_end", ok, 0)
        /\ mp4_writer' = [mp4_writer EXCEPT !.finalized = ok]
        /\ Return(IF ok THEN Ok ELSE ErrEnd)
    /\ UNCHANGED <<prev, input, output, vraw, entries, it, last_timestamp, dst_file>>

----------------------------------------------------------------------------

Next ==
    \/ OpenFail
    \/ OpenOk
    \/ OutputPanic
    \/ ReadIndexFail
    \/ ReadIndexOk
    \/ CreateFail
    \/ CreateOk
    \/ WriteStartFail
    \/ WriteStartOk
    \/ SelectExhausted
    \/ SelectParseErr
    \/ SelectH265
    \/ SelectH264
    \/ SelectStats
    \/ SelectUnsupported
    \/ EmitExhausted
    \/ EmitParseErr
    \/ EmitStats
    \/ EmitSample
    \/ WriteEnd

Spec == Init /\ [][Next]_vars

(* A second call of convert_vraw_to_mp4 with the same input and the same
   explicit output path on the same file, once the first has returned:
   every local of the run starts anew, and what the first run did is kept
   in prev *)
Restart ==
    /\ pc = "done" /\ prev.run = 1 /\ prev.arg # NoPath
    /\ prev' = [run |-> 2, arg |-> prev.arg, path |-> output, trace |-> trace,
                mp4_writer |-> mp4_writer, result |-> result]
    /\ output' = prev.arg
    /\ pc' = "open"
    /\ entries' = << >>
    /\ it' = 0
    /\ last_timestamp' = 0
    /\ dst_file' = FALSE
    /\ mp4_writer' = NewWriter
    /\ result' = None
    /\ trace' = << >>
    /\ UNCHANGED <<input, vraw>>

(* the run is sequential code with no suspension point: while a step is
   possible, one is taken *)
SpecFair == Spec /\ WF_vars(Next)

NextTwice == Next \/ Restart

SpecTwice == Init /\ [][NextTwice]_vars

----------------------------------------------------------------------------
(* Type invariant *)

TypeOK ==
    /\ pc \in {"open", "read_index", "create", "write_start", "select", "emit", "write_end", "done"}
    /\ (pc = "done") = (result # None)
    /\ it \in 0..(Len(entries) + 1)
    /\ dst_file \in BOOLEAN

----------------------------------------------------------------------------
(* Vocabulary of the properties *)

Video == {"H264", "H265"}

MuxOps == {"write_start", "add_track", "write_sample", "write_end"}

IsMuxCall(e) == e.op \in MuxOps

(* the muxer calls made so far, in order *)
MuxCalls == SelectSeq(trace, IsMuxCall)

Calls(op) == {k \in DOMAIN trace : trace[k].op = op}

OkCalls(op) == {k \in DOMAIN trace : trace[k].op = op /\ trace[k].ok}

NumStats(file) == Cardinality({k \in DOMAIN file : file[k].ok /\ file[k].format = "Stats"})

AllParse(file) == \A k \in DOMAIN file : file[k].ok

(* every frame parses, and the first frame that is not Stats is H264 or H265 *)
WellFormedWithVideo(file) ==
    /\ AllParse(file)
    /\ \E k \in DOMAIN file :
        /\ file[k].format \in Video
        /\ \A j \in 1..(k - 1) : file[j].format = "Stats"

(* no collaborator call of the run has failed *)
NoFailure == \A k \in DOMAIN trace : trace[k].ok

samples == mp4_writer.samples

----------------------------------------------------------------------------
(* C1: for a non-empty index whose frames all parse and whose first frame
   that is not Stats is H264 or H265, the run returns Ok, add_track is
   called exactly once and the number of samples written is the number of
   frames minus the Stats frames minus one; for the example input two
   samples are written and the first starts at 1000.  *)
C1_SamplesMinusOne ==
    (pc = "done" /\ result # Panic /\ WellFormedWithVideo(vraw) /\ NoFailure) =>
        /\ result = Ok
        /\ Cardinality(Calls("add_track")) = 1
        /\ Len(samples) = Len(vraw) - NumStats(vraw) - 1
        /\ (vraw = ExampleFile => Len(samples) = 2 /\ samples[1].start_time = 1000)

(* C2: when the selection scan parses every descriptor of a non-empty index
   and every frame is Stats, the run returns an error, not Ok.  *)
C2_NoVideoIsError ==
    (/\ pc = "done"
     /\ Len(vraw) > 0
     /\ \A k \in DOMAIN vraw : vraw[k].ok /\ vraw[k].format = "Stats"
     /\ Cardinality(Calls("parse_select")) = Len(vraw)) =>
        result # Ok

(* C3: the muxer calls of a run are write_start, then add_track, then
   write_sample any number of times, then one write_end; write_end is not
   called unless add_track has succeeded.  *)
C3_MuxOrder ==
    LET c == MuxCalls
        tracked == Len(c) >= 2 /\ c[2].op = "add_track" /\ c[2].ok
    IN  \A k \in DOMAIN c :
            /\ (k = 1) = (c[k].op = "write_start")
            /\ (c[k].op = "add_track") => k = 2
            /\ (c[k].op = "write_sample") => (k >= 3 /\ tracked)
            /\ (c[k].op = "write_end") => (k >= 3 /\ k = Len(c) /\ tracked)

(* C4: in every state add_track has been called at most once, and every
   write_sample call comes after a successful add_track.  *)
C4_OneTrackBeforeSamples ==
    /\ Cardinality(Calls("add_track")) <= 1
    /\ Len(mp4_writer.tracks) <= 1
    /\ \A k \in Calls("write_sample") : \E j \in OkCalls("add_track") : j < k

C4_Witness ==
    /\ pc = "done"
    /\ Cardinality(OkCalls("write_sample")) >= 2
    /\ Cardinality(OkCalls("add_track")) = 1

(* C5: of two consecutive emitted samples, for frames with timestamps t1
   then t2, the first has duration (t2 - t1 + 500000) div 1000000: the
   duration of a frame is the next frame's timestamp minus its own.  *)
C5_DurationFromNext ==
    \A k \in 1..(Len(samples) - 1) :
        samples[k].duration =
            (samples[k + 1].start_time - samples[k].start_time + 500000) \div 1000000

(* C6: when read_index succeeds with zero entries the run returns the
   empty-index error, the output file has not been created and no muxer
   call has been made.  *)
C6_EmptyIndex ==
    (OkCalls("read_index") # {} /\ Len(vraw) = 0) =>
        /\ pc = "done"
        /\ result = ErrEmpty
        /\ ~dst_file
        /\ Calls("create") = {}
        /\ MuxCalls = << >>
        /\ ~mp4_writer.started

C6_Witness ==
    /\ result = ErrEmpty
    /\ OkCalls("read_index") # {}
    /\ entries = << >>

(* C7: when the selection pass parses a frame that is neither H264, H265
   nor Stats, the run returns the unsupported-format error at once: that
   parse is the last call of the run, and add_track, write_sample and
   write_end are never called.  *)
C7_UnsupportedIsFatal ==
    \A k \in OkCalls("parse_select") :
        vraw[trace[k].arg].format \notin (Video \cup {"Stats"}) =>
            /\ k = Len(trace)
            /\ pc = "done"
            /\ result = ErrFormat
            /\ Calls("add_track") \cup Calls("write_sample") \cup Calls("write_end") = {}
            /\ mp4_writer.tracks = << >> /\ samples = << >> /\ ~mp4_writer.finalized

C7_Witness ==
    /\ result = ErrFormat
    /\ Len(vraw) >= 3
    /\ vraw[1].ok /\ vraw[1].format = "Stats"
    /\ vraw[2].ok /\ vraw[2].format = "Other"
    /\ vraw[3].ok /\ vraw[3].format = "H265"

(* the first parse failure of the emission pass ends the loop: it is the
   last parse of the run, the samples written before it are the samples of
   the muxer, and nothing but write_end follows it *)
EmitTerminator(k) ==
    /\ pc \in {"write_end", "done"}
    /\ \A j \in (k + 1)..Len(trace) : j = k + 1 /\ trace[j].op = "write_end"
    /\ Len(samples) = Cardinality({j \in OkCalls("write_sample") : j < k})
    /\ pc = "done" => Len(trace) = k + 1

(* C8: in the emission pass the first descriptor whose parse fails ends
   the loop as a normal terminator: no later descriptor is parsed or
   emitted, the samples written before it stay written, write_end is
   called, and the run returns Ok.  *)
C8_ParseFailReturnsOk ==
    \A k \in Calls("parse_emit") :
        ~trace[k].ok => (EmitTerminator(k) /\ (pc = "done" => result = Ok))

(* C8, amended: as above, and the run returns what write_end returns: Ok
   when write_end succeeds, the finalize error when it fails, never the
   frame-read error.  *)
C8_ParseFailEndsLoop ==
    \A k \in Calls("parse_emit") :
        ~trace[k].ok =>
            /\ EmitTerminator(k)
            /\ pc = "done" => result = (IF trace[k + 1].ok THEN Ok ELSE ErrEnd)

C8_Witness ==
    /\ pc = "done"
    /\ result = Ok
    /\ \E k \in Calls("parse_emit") : ~trace[k].ok
    /\ Len(samples) = 2
    /\ Len(vraw) = 3

ListedErrors ==
    {ErrOpen, ErrIndex, ErrEmpty, ErrCreate, ErrStart, ErrFrame, ErrFormat, ErrAddTrack, ErrSample}

(* C9: write_end is not called in a run that returns one of the errors of
   input open, index read, empty index, output create, mux start, frame
   read, unsupported format, add_track or write_sample, so the output is
   finalized only in a run that returns Ok; and a run that returns Ok has
   called write_end exactly once, as its last muxer call.  *)
C9_FinalizeOnlyOnOk ==
    /\ Cardinality(Calls("write_end")) <= 1
    /\ result \in ListedErrors => (Calls("write_end") = {} /\ ~mp4_writer.finalized)
    /\ mp4_writer.finalized => result = Ok
    /\ result = Ok =>
        /\ Cardinality(Calls("write_end")) = 1
        /\ MuxCalls[Len(MuxCalls)] = Event("write_end", TRUE, 0)
        /\ mp4_writer.finalized

C9_Witness ==
    /\ result = Ok
    /\ mp4_writer.finalized
    /\ Len(samples) >= 1

(* C10: a failed write_sample call is the last call of the run: it is not
   retried, no further descriptor is parsed, no further write_sample or
   write_end call is made, and the run returns the write error.  *)
C10_WriteFailAborts ==
    \A k \in Calls("write_sample") :
        ~trace[k].ok =>
            /\ k = Len(trace)
            /\ pc = "done"
            /\ result = ErrSample
            /\ ~mp4_writer.finalized
            /\ Len(samples) = Cardinality(OkCalls("write_sample"))

C10_Witness ==
    /\ result = ErrSample
    /\ Len(samples) >= 1
    /\ it < Len(entries)

(* the collaborators behave in the second run as they did in the first,
   as far as both runs have called them *)
SameOutcomes ==
    \A k \in 1..Len(trace) : k <= Len(prev.trace) => trace[k].ok = prev.trace[k].ok

IsPrefix(a, b) == Len(a) <= Len(b) /\ a = SubSeq(b, 1, Len(a))

(* C11: a second run on the same file with the same explicit output path,
   whose collaborators behave as in the first, makes the same calls with
   the same arguments (track configuration, and each sample's start_time,
   duration, rendering offset, sync flag and bytes), writes to the same
   path and returns the same result, whatever the clock shows.  *)
C11_SameRunTwice ==
    (prev.run = 2 /\ prev.arg # NoPath /\ SameOutcomes) =>
        /\ IsPrefix(trace, prev.trace)
        /\ IsPrefix(mp4_writer.tracks, prev.mp4_writer.tracks)
        /\ IsPrefix(samples, prev.mp4_writer.samples)
        /\ pc # "open" => output = prev.path
        /\ pc = "done" =>
            /\ trace = prev.trace
            /\ mp4_writer = prev.mp4_writer
            /\ result = prev.result

C11_Witness ==
    /\ prev.run = 2 /\ prev.arg # NoPath /\ SameOutcomes
    /\ pc = "done"
    /\ result = Ok
    /\ Len(samples) = 3
    /\ samples[3].duration = 1

(* C12: the add_track call follows the parse of the first frame that is
   not Stats; the track it adds is the default HEVC configuration when that
   frame is H265 and the AVC configuration with width 0, height 0 and the
   placeholder parameter sets when it is H264; last_timestamp is then that
   frame's timestamp, and the selection pass parses no later descriptor.  *)
C12_TrackFromFirstVideo ==
    /\ mp4_writer.tracks # << >> => OkCalls("add_track") # {}
    /\ \A k \in Calls("add_track") :
        LET e == trace[k - 1].arg
        IN  /\ trace[k - 1].op = "parse_select" /\ trace[k - 1].ok
            /\ \A j \in 1..(e - 1) : vraw[j].ok /\ vraw[j].format = "Stats"
            /\ vraw[e].ok /\ vraw[e].format \in Video
            /\ Cardinality(Calls("parse_select")) = e
            /\ \A j \in Calls("parse_select") : j < k
            /\ trace[k].ok =>
                /\ Len(mp4_writer.tracks) = 1
                /\ vraw[e].format = "H265" =>
                    mp4_writer.tracks[1] = [media |-> "hevc", width |-> 0, height |-> 0]
                /\ vraw[e].format = "H264" =>
                    /\ mp4_writer.tracks[1].media = "avc"
                    /\ mp4_writer.tracks[1].width = 0 /\ mp4_writer.tracks[1].height = 0
                    /\ mp4_writer.tracks[1].seq_param_set = AvcConfig.seq_param_set
                    /\ mp4_writer.tracks[1].pic_param_set = AvcConfig.pic_param_set
                /\ k = Len(trace) =>
                    (pc = "emit" /\ it = 1 /\ last_timestamp = vraw[e].timestamp)

C12_Witness ==
    /\ Len(vraw) = 3
    /\ vraw[1].ok /\ vraw[1].format = "Stats"
    /\ vraw[2].ok /\ vraw[2].format = "H264" /\ vraw[2].timestamp = 500000
    /\ vraw[3].ok /\ vraw[3].format = "H265"
    /\ Len(trace) > 0 /\ trace[Len(trace)] = Event("add_track", TRUE, 0)
    /\ last_timestamp = 500000
    /\ mp4_writer.tracks = <<AvcConfig>>

(* the run is about to process a Stats frame, in either pass *)
AtStatsFrame ==
    /\ pc \in {"select", "emit"}
    /\ it \in 1..Len(entries)
    /\ frame.ok /\ frame.format = "Stats"

(* no sample comes from a Stats frame, and every sample after the first has
   its duration computed against the sample written before it *)
DurationsSkipStats ==
    /\ \A k \in DOMAIN samples : vraw[samples[k].bytes].format # "Stats"
    /\ \A k \in 2..Len(samples) :
        samples[k].duration =
            (samples[k].start_time - samples[k - 1].start_time + 500000) \div 1000000

(* C13: processing a Stats frame, in either pass, makes no muxer call and
   leaves the samples written, the track configuration and last_timestamp
   unchanged: it only moves the loop to the next descriptor; so the
   duration of the next emitted sample is computed against the previous
   frame that is not Stats.  *)
C13_StatsHasNoEffect ==
    /\ []DurationsSkipStats
    /\ [][AtStatsFrame =>
            /\ mp4_writer' = mp4_writer
            /\ last_timestamp' = last_timestamp
            /\ trace' = Append(trace, Event(IF pc = "select" THEN "parse_select" ELSE "parse_emit",
                                            TRUE, entries[it]))
            /\ pc' = pc /\ it' = it + 1 /\ result' = result]_vars

C13_Witness ==
    /\ Len(vraw) = 3
    /\ vraw[1].ok /\ vraw[1].format = "H265" /\ vraw[1].timestamp = 0
    /\ vraw[2].ok /\ vraw[2].format = "Stats" /\ vraw[2].timestamp = 500000
    /\ vraw[3].ok /\ vraw[3].format = "H265" /\ vraw[3].timestamp = 500000
    /\ Len(samples) = 2
    /\ samples[2].duration = 1

(* C14: in the emission pass every parsed frame that is not Stats, whatever
   its format, is followed by exactly one write_sample call for it; the
   samples written are, in descriptor order, those of the successful calls,
   each on track 1 with the frame's timestamp as start_time, rendering
   offset 0, sync flag false and the frame's bytes; after a successful call
   last_timestamp is the frame's timestamp and the loop goes on, also for
   an unsupported format.  *)
C14_EveryFrameEmitted ==
    /\ \A k \in OkCalls("parse_emit") :
        LET e == trace[k].arg
        IN  vraw[e].format # "Stats" =>
                /\ k < Len(trace)
                /\ trace[k + 1].op = "write_sample" /\ trace[k + 1].arg = e
                /\ Cardinality({j \in Calls("write_sample") : trace[j].arg = e}) = 1
                /\ (k + 1 = Len(trace) /\ trace[k + 1].ok) =>
                    /\ result = None /\ it = e + 1
                    /\ pc = "emit" \/ (pc = "write_end" /\ e = Len(entries))
                    /\ last_timestamp = vraw[e].timestamp
    /\ \A k \in Calls("write_sample") : trace[k - 1] = Event("parse_emit", TRUE, trace[k].arg)
    /\ Len(samples) = Cardinality(OkCalls("write_sample"))
    /\ \A k \in OkCalls("write_sample") :
        LET e == trace[k].arg
            n == Cardinality({j \in OkCalls("write_sample") : j <= k})
        IN  /\ samples[n].track_id = 1
            /\ samples[n].start_time = vraw[e].timestamp
            /\ samples[n].rendering_offset = 0
            /\ samples[n].is_sync = FALSE
            /\ samples[n].bytes = vraw[e].raw_data
            /\ \A m \in 1..(n - 1) : samples[m].bytes < samples[n].bytes
    /\ samples # << >> => last_timestamp = samples[Len(samples)].start_time

C14_Witness ==
    /\ Len(vraw) = 3
    /\ vraw[1].ok /\ vraw[1].format = "H265"
    /\ vraw[2].ok /\ vraw[2].format = "Other"
    /\ vraw[3].ok /\ vraw[3].format = "H264"
    /\ result = Ok
    /\ Len(samples) = 3

IsSelectParse(e) == e.op = "parse_select"

IsEmitParse(e) == e.op = "parse_emit"

(* the calls of op are for the descriptors 1, 2, 3, .. in this order *)
InIndexOrder(calls) ==
    /\ Len(calls) <= Len(vraw)
    /\ \A k \in DOMAIN calls : calls[k].arg = k

ParserCalls ==
    /\ InIndexOrder(SelectSeq(trace, IsSelectParse))
    /\ InIndexOrder(SelectSeq(trace, IsEmitParse))
    /\ Cardinality(Calls("parse_select") \cup Calls("parse_emit")) <= 2 * Len(vraw)
    /\ \A j \in Calls("parse_select"), k \in Calls("parse_emit") : j < k

(* C15: every run returns, and for an index of N descriptors the frame
   parser is called at most N times in the selection pass and then at most
   N times in the emission pass, in each pass for the descriptors in index
   order and at most once for each.  *)
C15_TerminatesTwoPasses ==
    /\ <>(pc = "done")
    /\ []ParserCalls

C15_Witness ==
    /\ pc = "done"
    /\ Len(vraw) = 3
    /\ Cardinality(Calls("parse_select")) = 3
    /\ Cardinality(Calls("parse_emit")) = 3

(* C16: a parse failure in the selection pass is the last call of the run:
   the run returns the unable-to-read-frame error, and add_track,
   write_sample and write_end are never called.  *)
C16_SelectParseFailIsFatal ==
    \A k \in Calls("parse_select") :
        ~trace[k].ok =>
            /\ k = Len(trace)
            /\ pc = "done"
            /\ result = ErrFrame
            /\ Calls("add_track") \cup Calls("write_sample") \cup Calls("write_end") = {}
            /\ mp4_writer.tracks = << >> /\ samples = << >> /\ ~mp4_writer.finalized

C16_Witness ==
    /\ result = ErrFrame
    /\ Len(vraw) = 3
    /\ vraw[1].ok /\ vraw[1].format = "Stats"
    /\ ~vraw[2].ok
    /\ vraw[3].ok /\ vraw[3].format = "H265"

(* the descriptor of the frame that selected the track *)
SelectingEntry == trace[(CHOOSE k \in Calls("add_track") : TRUE) - 1].arg

(* C17: the emission pass starts again at the first descriptor: its parses
   are for the descriptors 1, 2, .., so the frame that selected the track
   is parsed a second time; the first write_sample call of the run is for
   that frame, and the sample it writes has the frame's timestamp as
   start_time and duration 0.  *)
C17_SelectingFrameReEmitted ==
    /\ \A k \in DOMAIN SelectSeq(trace, IsEmitParse) : SelectSeq(trace, IsEmitParse)[k].arg = k
    /\ \A k \in Calls("write_sample") :
        (\A j \in Calls("write_sample") : k <= j) =>
            /\ Calls("add_track") # {}
            /\ trace[k].arg = SelectingEntry
            /\ trace[k].ok =>
                /\ samples[1].bytes = vraw[SelectingEntry].raw_data
                /\ samples[1].start_time = vraw[SelectingEntry].timestamp
                /\ samples[1].duration = 0
    /\ samples # << >> => \E k \in OkCalls("write_sample") : trace[k].arg = samples[1].bytes

C17_Witness ==
    /\ Len(vraw) = 3
    /\ vraw[1].ok /\ vraw[1].format = "Stats"
    /\ vraw[2].ok /\ vraw[2].format = "H265" /\ vraw[2].timestamp = 500000
    /\ vraw[3].ok /\ vraw[3].format = "H265" /\ vraw[3].timestamp = 500000
    /\ Len(samples) = 2
    /\ samples[1].start_time = 500000 /\ samples[1].duration = 0

====
